---- MODULE Spec2Model ----
(***************************************************************************)
(* A model of advanced-vector/vector.h: RawMemory<T> (an owner of raw,     *)
(* uninitialised storage) and Vector<T> (the dynamic array built on it).   *)
(*                                                                         *)
(* The heap is a set of blocks; a block is a sequence of slots, and a slot *)
(* either holds no object (Raw) or a live element with a value.  A moved-  *)
(* from element is live and holds the value Hollow.  Every operation is    *)
(* one action.  Its input `f` chooses which of the operation's steps that  *)
(* can throw (allocation, element construction, copy, assignment, and move *)
(* for a type whose move may throw) does throw: f = 0 means none, f = k    *)
(* means the k-th such step.  Stack unwinding (the destructors of locals)  *)
(* is part of the action.                                                  *)
(***************************************************************************)
EXTENDS Integers, Sequences, FiniteSets, TLC

\* Bounds of the model.
MaxCap == 4
MaxVal == 2
PairCap == 2
FailCap == 3
SourceCap == 2
CtorCap == 5


\* Slot contents.
Raw == -2
Hollow == -1
DefaultVal == 0

UserVals == 1..MaxVal

\* Vector objects: A and B are the program's arrays, Tmp is the local
\* `to_copy` of copy-assignment.
A == 1
B == 2
Tmp == 0
VecIds == {A, B}
BufIds == 1..3
NullBuf == 0

\* The element types T the template is instantiated with, by the two traits
\* the code branches on.  (A move-only type with a noexcept move behaves as
\* the first one does without its copy operations.)
Types ==
    {[nothrowMove |-> TRUE, copyable |-> TRUE],
     [nothrowMove |-> FALSE, copyable |-> TRUE],
     [nothrowMove |-> FALSE, copyable |-> FALSE]}

VARIABLES heap, vec, T, last, hist

vars == <<heap, vec, T, last, hist>>

NoVector == [alive |-> FALSE, buf |-> NullBuf, cap |-> 0, size |-> 0]
EmptyVector == [alive |-> TRUE, buf |-> NullBuf, cap |-> 0, size |-> 0]
NullMem == [buf |-> NullBuf, cap |-> 0]

\* The working state of one running operation.
World(f) ==
    [heap |-> heap, vec |-> vec, nd |-> NullMem, fuel |-> f, thrown |-> FALSE,
     lost |-> 0, stray |-> 0, unfreed |-> 0, twice |-> 0, ret |-> 0, ub |-> FALSE,
     fault |-> FALSE]

----------------------------------------------------------------------------
\* Exceptions.

Fails(w) == w.fuel = 1
Pass(w) == [w EXCEPT !.fuel = IF @ > 1 THEN @ - 1 ELSE @]
Throw(w) == [w EXCEPT !.thrown = TRUE, !.fuel = 0]

----------------------------------------------------------------------------
\* Slots and element-wise primitives.

Min(a, b) == IF a < b THEN a ELSE b

\* What slot i of block b holds.  Storage that is not there (a null or
\* released address, an index past the block) holds no object.
Slot(w, b, i) ==
    IF b \in BufIds /\ i + 1 \in DOMAIN w.heap[b] THEN w.heap[b][i + 1] ELSE Raw

SetSlot(w, b, i, x) ==
    IF b \in BufIds /\ i + 1 \in DOMAIN w.heap[b]
    THEN [w EXCEPT !.heap[b][i + 1] = x] ELSE w

LiveCount(blk) == Cardinality({i \in DOMAIN blk : blk[i] # Raw})

\* Placement construction of an element with value x in slot i of block b.
\* An object already there would be overwritten, never destroyed.
ConstructAt(w, b, i, x) ==
    [SetSlot(w, b, i, x) EXCEPT !.stray = @ + (IF Slot(w, b, i) # Raw THEN 1 ELSE 0)]

RECURSIVE DestroyN(_, _, _, _)
DestroyN(w, b, i, n) ==
    IF n = 0 THEN w ELSE DestroyN(SetSlot(w, b, i + n - 1, Raw), b, i, n - 1)

RECURSIVE UninitCopyLoop(_, _, _, _, _, _, _)
UninitCopyLoop(w, sb, si, db, di, k, n) ==
    IF k = n THEN w
    ELSE IF Fails(w) THEN Throw(DestroyN(w, db, di, k))
    ELSE UninitCopyLoop(ConstructAt(Pass(w), db, di + k, Slot(w, sb, si + k)),
                        sb, si, db, di, k + 1, n)

UninitializedCopyN(w, sb, si, n, db, di) == UninitCopyLoop(w, sb, si, db, di, 0, n)

RECURSIVE UninitMoveLoop(_, _, _, _, _, _, _)
UninitMoveLoop(w, sb, si, db, di, k, n) ==
    IF k = n THEN w
    ELSE IF ~T.nothrowMove /\ Fails(w) THEN Throw(DestroyN(w, db, di, k))
    ELSE LET w1 == IF T.nothrowMove THEN w ELSE Pass(w)
             w2 == ConstructAt(w1, db, di + k, Slot(w, sb, si + k))
         IN UninitMoveLoop(SetSlot(w2, sb, si + k, Hollow), sb, si, db, di, k + 1, n)

UninitializedMoveN(w, sb, si, n, db, di) == UninitMoveLoop(w, sb, si, db, di, 0, n)

RECURSIVE UninitValueLoop(_, _, _, _, _)
UninitValueLoop(w, b, i, k, n) ==
    IF k = n THEN w
    ELSE IF Fails(w) THEN Throw(DestroyN(w, b, i, k))
    ELSE UninitValueLoop(ConstructAt(Pass(w), b, i + k, DefaultVal), b, i, k + 1, n)

\* A construct-n that leaves what it built behind when a constructor throws.
RECURSIVE ValueConstructNoRollback(_, _, _, _)
ValueConstructNoRollback(w, b, i, n) ==
    IF n = 0 THEN w
    ELSE IF Fails(w) THEN Throw(w)
    ELSE ValueConstructNoRollback(ConstructAt(Pass(w), b, i, DefaultVal), b, i + 1, n - 1)

UninitializedValueConstructN(w, b, i, n) == UninitValueLoop(w, b, i, 0, n)

\* Move assignment of slot si to slot di (both in block b).
MoveAssign(w, b, si, di) ==
    IF ~T.nothrowMove /\ Fails(w) THEN Throw(w)
    ELSE LET w1 == IF T.nothrowMove THEN w ELSE Pass(w)
         IN IF si = di THEN w1
            ELSE SetSlot(SetSlot(w1, b, di, Slot(w, b, si)), b, si, Hollow)

\* std::move(first, last, d_first) with d_first = first - 1: elements
\* [i, e) of block b move one slot to the left, front to back.
RECURSIVE MoveLeft(_, _, _, _)
MoveLeft(w, b, i, e) ==
    IF i >= e \/ w.thrown THEN w
    ELSE MoveLeft(MoveAssign(w, b, i, i - 1), b, i + 1, e)

\* std::move_backward(first, last, d_last) with d_last = last + 1: elements
\* [i, e) of block b move one slot to the right, back to front.
RECURSIVE MoveBackward(_, _, _, _)
MoveBackward(w, b, i, e) ==
    IF i >= e \/ w.thrown THEN w
    ELSE MoveBackward(MoveAssign(w, b, e - 1, e), b, i, e - 1)

\* std::copy(first, first + n, d_first): copy assignment, front to back.
RECURSIVE CopyLoop(_, _, _, _, _)
CopyLoop(w, sb, db, k, n) ==
    IF k = n THEN w
    ELSE IF Fails(w) THEN Throw(w)
    ELSE CopyLoop(SetSlot(Pass(w), db, k, Slot(w, sb, k)), sb, db, k + 1, n)

----------------------------------------------------------------------------
\* RawMemory.

FreeBufs(w) == {b \in BufIds : w.heap[b] = <<>>}

\* RawMemory::Allocate: nullptr for n = 0, else a fresh block of n raw slots
\* (w.ret is its address), or std::bad_alloc.
Allocate(w, n) ==
    IF n = 0 THEN [w EXCEPT !.ret = NullBuf]
    ELSE IF Fails(w) \/ FreeBufs(w) = {} THEN Throw(w)
    ELSE LET b == CHOOSE x \in FreeBufs(w) : \A y \in FreeBufs(w) : x <= y
         IN [Pass(w) EXCEPT !.heap[b] = [i \in 1..n |-> Raw], !.ret = b]

\* RawMemory::Deallocate: operator delete runs no destructors, so elements
\* still live in the block are lost.  Deleting a block twice is undefined
\* (and counted in w.twice).
Deallocate(w, b) ==
    IF b = NullBuf THEN w
    ELSE IF w.heap[b] = <<>> THEN [w EXCEPT !.ub = TRUE, !.twice = @ + 1]
    ELSE [w EXCEPT !.heap[b] = <<>>, !.lost = @ + LiveCount(w.heap[b])]

\* RawMemory<T> new_data(n): the local new_data of Reserve, PushBackU, Emplace.
NewData(w, n) ==
    LET w1 == Allocate(w, n)
    IN IF w1.thrown THEN w1 ELSE [w1 EXCEPT !.nd = [buf |-> w1.ret, cap |-> n]]

\* new_data.Swap(data_) for vector v.
SwapNewData(w, v) ==
    [w EXCEPT !.nd = [buf |-> w.vec[v].buf, cap |-> w.vec[v].cap],
              !.vec[v].buf = w.nd.buf, !.vec[v].cap = w.nd.cap]

\* ~RawMemory of the local new_data, at scope exit or while unwinding.
DropNewData(w) == [Deallocate(w, w.nd.buf) EXCEPT !.nd = NullMem]

----------------------------------------------------------------------------
\* Vector: private helpers.

\* A relocation that moves whatever the element type.
AlwaysMove(w, sb, si, n, db, di) == UninitializedMoveN(w, sb, si, n, db, di)

CopyOrMove(w, sb, si, n, db, di) ==
    IF T.nothrowMove \/ ~T.copyable
    THEN UninitializedMoveN(w, sb, si, n, db, di)
    ELSE UninitializedCopyN(w, sb, si, n, db, di)

CopySwap(w, v) ==
    LET d == w.vec[v]
        w1 == CopyOrMove(w, d.buf, 0, d.size, w.nd.buf, 0)
    IN IF w1.thrown THEN w1
       ELSE SwapNewData(DestroyN(w1, d.buf, 0, d.size), v)

\* A growth policy of one slot at a time.
GrowByOne(size) == size + 1

GrowCap(size) == IF size = 0 THEN 1 ELSE size * 2

----------------------------------------------------------------------------
\* Vector: public operations, as functions of the working state.

\* A Reserve that grows to at least the growth policy's capacity.
ReserveAtLeastDouble(w, v, n) ==
    IF n > w.vec[v].cap
    THEN LET m == IF n > GrowCap(w.vec[v].cap) THEN n ELSE GrowCap(w.vec[v].cap)
             w1 == NewData(w, m)
         IN IF w1.thrown THEN w1 ELSE DropNewData(CopySwap(w1, v))
    ELSE w

Reserve(w, v, n) ==
    IF n > w.vec[v].cap
    THEN LET w1 == NewData(w, n)
         IN IF w1.thrown THEN w1 ELSE DropNewData(CopySwap(w1, v))
    ELSE w

\* The value an argument denotes: an external value, or (arg.ref) the element
\* of v with index arg.x, read when the new element is constructed.
ArgVal(w, v, arg) == IF arg.ref THEN Slot(w, w.vec[v].buf, arg.x) ELSE arg.x

\* Whether constructing the new element can throw: T(const T&) and
\* T(Args...) can, T(T&&) only when T's move is not noexcept.
CtorThrows(kind) == kind # "move" \/ ~T.nothrowMove

\* Construction of the new element, of value x, in slot i of block b.
ConstructNew(w, b, i, kind, x) ==
    IF CtorThrows(kind)
    THEN IF Fails(w) THEN Throw(w) ELSE ConstructAt(Pass(w), b, i, x)
    ELSE ConstructAt(w, b, i, x)

AddSize(w, v) == [w EXCEPT !.vec[v].size = @ + 1]

\* Vector::PushBackU with the copy_move of PushBack(const T&) (kind "copy"),
\* PushBack(T&&) ("move") or EmplaceBack ("args").
PushBackU(w, v, kind, arg) ==
    LET d == w.vec[v]
        x == ArgVal(w, v, arg)
    IN IF d.size # d.cap
       THEN LET w1 == ConstructNew(w, d.buf, d.size, kind, x)
            IN IF w1.thrown THEN w1 ELSE AddSize(w1, v)
       ELSE LET w1 == NewData(w, GrowCap(d.size))
            IN IF w1.thrown THEN w1
               ELSE LET w2 == ConstructNew(w1, w1.nd.buf, d.size, kind, x)
                    IN IF w2.thrown THEN DropNewData(w2)
                       ELSE LET w3 == CopySwap(w2, v)
                            IN IF w3.thrown THEN DropNewData(w3)
                               ELSE AddSize(DropNewData(w3), v)

\* A PopBack that forgets the last element without destroying it.
PopBackKeepsObject(w, v) == [w EXCEPT !.vec[v].size = @ - 1]

PopBack(w, v) ==
    LET d == w.vec[v]
    IN [DestroyN(w, d.buf, d.size - 1, 1) EXCEPT !.vec[v].size = @ - 1]

\* The object `tmp` of Emplace is abandoned: never destroyed, never deleted.
LeakTmp(w) == [w EXCEPT !.stray = @ + 1, !.unfreed = @ + 1]

\* Emplace, the branch size_ < Capacity() && size_ != 0.  With pos == end()
\* the range [pos_nc, data_ + size_ - 1) of std::move_backward has its first
\* iterator behind its last: undefined behaviour (w.ub).  The builds either
\* run no iteration (ub = "skip": a counted loop) and go on, or call memmove
\* with a negative length and fault (ub = "trash").
EmplaceInPlace(w, v, p, kind, arg, ub) ==
    LET d == w.vec[v]
        x == ArgVal(w, v, arg)
    IN IF Fails(w) THEN Throw(w)
       ELSE LET w0 == Pass(w)
            IN IF CtorThrows(kind) /\ Fails(w0) THEN Throw(w0)
               ELSE LET w1 == IF CtorThrows(kind) THEN Pass(w0) ELSE w0
                        w2 == CopyOrMove(w1, d.buf, d.size - 1, 1, d.buf, d.size)
                        w3 == MoveBackward(w2, d.buf, p, d.size - 1)
                        w4 == IF ~T.nothrowMove /\ Fails(w3) THEN Throw(w3)
                              ELSE SetSlot(IF T.nothrowMove THEN w3 ELSE Pass(w3),
                                           d.buf, p, x)
                    IN IF w2.thrown THEN LeakTmp(w2)
                       ELSE IF p > d.size - 1 /\ ub = "trash"
                            THEN [w2 EXCEPT !.ub = TRUE, !.fault = TRUE]
                       ELSE IF w3.thrown THEN LeakTmp(w3)
                       ELSE IF w4.thrown THEN LeakTmp(w4)
                       ELSE [AddSize(w4, v) EXCEPT !.unfreed = @ + 1, !.ret = p,
                                                   !.ub = p > d.size - 1]

\* Emplace, the else branch: a new buffer.
EmplaceRealloc(w, v, p, kind, arg) ==
    LET d == w.vec[v]
        x == ArgVal(w, v, arg)
        w1 == NewData(w, GrowCap(d.size))
    IN IF w1.thrown THEN w1
       ELSE LET nb == w1.nd.buf
                w2 == ConstructNew(w1, nb, p, kind, x)
                w3 == CopyOrMove(w2, d.buf, 0, p, nb, 0)
                w4 == CopyOrMove(w3, d.buf, p, d.size - p, nb, p + 1)
                w5 == IF d.size # 0 THEN DestroyN(w4, d.buf, 0, d.size) ELSE w2
            IN IF w2.thrown THEN DropNewData(w2)
               ELSE IF d.size # 0 /\ w3.thrown THEN DropNewData(w3)
               ELSE IF d.size # 0 /\ w4.thrown THEN DropNewData(w4)
               ELSE [AddSize(DropNewData(SwapNewData(w5, v)), v) EXCEPT !.ret = p]

InPlacePath(d) == d.size < d.cap /\ d.size # 0

Emplace(w, v, p, kind, arg, ub) ==
    IF InPlacePath(w.vec[v])
    THEN EmplaceInPlace(w, v, p, kind, arg, ub)
    ELSE EmplaceRealloc(w, v, p, kind, arg)

\* An Erase that shifts the tail from one slot too far.
EraseSkipsNext(w, v, p) ==
    LET d == w.vec[v]
        w1 == MoveLeft(w, d.buf, p + 2, d.size)
    IN IF w1.thrown THEN w1
       ELSE [DestroyN(w1, d.buf, d.size - 1, 1) EXCEPT !.vec[v].size = @ - 1, !.ret = p]

Erase(w, v, p) ==
    LET d == w.vec[v]
        w1 == MoveLeft(w, d.buf, p + 1, d.size)
    IN IF w1.thrown THEN w1
       ELSE [DestroyN(w1, d.buf, d.size - 1, 1) EXCEPT !.vec[v].size = @ - 1, !.ret = p]

\* A Resize that shrinks without destroying the tail.
ResizeKeepsTail(w, v, n) ==
    LET d == w.vec[v]
    IN IF d.size = n THEN w
       ELSE IF n < d.size THEN [w EXCEPT !.vec[v].size = n]
       ELSE LET w1 == Reserve(w, v, n)
                w2 == UninitializedValueConstructN(w1, w1.vec[v].buf, d.size, n - d.size)
            IN IF w1.thrown THEN w1
               ELSE IF w2.thrown THEN w2
               ELSE [w2 EXCEPT !.vec[v].size = n]

Resize(w, v, n) ==
    LET d == w.vec[v]
    IN IF d.size = n THEN w
       ELSE IF n < d.size
       THEN [DestroyN(w, d.buf, n, d.size - n) EXCEPT !.vec[v].size = n]
       ELSE LET w1 == Reserve(w, v, n)
                w2 == UninitializedValueConstructN(w1, w1.vec[v].buf, d.size, n - d.size)
            IN IF w1.thrown THEN w1
               ELSE IF w2.thrown THEN w2
               ELSE [w2 EXCEPT !.vec[v].size = n]

\* v[i] = x through operator[]: T's copy assignment.
WriteElem(w, v, i, x) ==
    IF Fails(w) THEN Throw(w) ELSE SetSlot(Pass(w), w.vec[v].buf, i, x)

----------------------------------------------------------------------------
\* Vector: construction, destruction, assignment.

\* A Vector(size_t) that rounds its allocation up to the growth policy's.
VectorSizedRounded(w, v, n) ==
    LET w1 == Allocate(w, IF n = 0 THEN 0 ELSE GrowCap(n))
        w2 == UninitializedValueConstructN(w1, w1.ret, 0, n)
    IN IF w1.thrown THEN w1
       ELSE IF w2.thrown THEN Deallocate(w2, w1.ret)
       ELSE [w2 EXCEPT !.vec[v] = [alive |-> TRUE, buf |-> w1.ret,
                                   cap |-> IF n = 0 THEN 0 ELSE GrowCap(n), size |-> n]]

\* Vector(size_t size).  When the body throws the members are destroyed
\* (~RawMemory), the Vector destructor does not run.
VectorSized(w, v, n) ==
    LET w1 == Allocate(w, n)
        w2 == UninitializedValueConstructN(w1, w1.ret, 0, n)
    IN IF w1.thrown THEN w1
       ELSE IF w2.thrown THEN Deallocate(w2, w1.ret)
       ELSE [w2 EXCEPT !.vec[v] = [alive |-> TRUE, buf |-> w1.ret, cap |-> n, size |-> n]]

\* A copy constructor that copies the pointer, not the elements.
VectorCopyShallow(w, v, o) ==
    LET s == w.vec[o]
    IN [w EXCEPT !.vec[v] = [alive |-> TRUE, buf |-> s.buf, cap |-> s.size, size |-> s.size]]

\* Vector(const Vector& other).
VectorCopy(w, v, o) ==
    LET s == w.vec[o]
        w1 == Allocate(w, s.size)
        w2 == UninitializedCopyN(w1, s.buf, 0, s.size, w1.ret, 0)
    IN IF w1.thrown THEN w1
       ELSE IF w2.thrown THEN Deallocate(w2, w1.ret)
       ELSE [w2 EXCEPT !.vec[v] = [alive |-> TRUE, buf |-> w1.ret,
                                   cap |-> s.size, size |-> s.size]]

\* A move constructor that takes the buffer and leaves the source its size.
VectorMoveKeepsSize(w, v, o) ==
    LET s == w.vec[o]
    IN [w EXCEPT !.vec[v] = [alive |-> TRUE, buf |-> s.buf, cap |-> s.cap, size |-> s.size],
                 !.vec[o] = [alive |-> TRUE, buf |-> NullBuf, cap |-> 0, size |-> s.size]]

\* Vector(Vector&& other) with RawMemory(RawMemory&&).
VectorMove(w, v, o) ==
    LET s == w.vec[o]
    IN [w EXCEPT !.vec[v] = [alive |-> TRUE, buf |-> s.buf, cap |-> s.cap, size |-> s.size],
                 !.vec[o] = EmptyVector]

\* ~Vector, then ~RawMemory of data_.
VectorDtor(w, v) ==
    LET d == w.vec[v]
    IN [Deallocate(DestroyN(w, d.buf, 0, d.size), d.buf) EXCEPT !.vec[v] = NoVector]

\* A Swap that hands over one way only.
SwapOneWay(w, v, o) == [w EXCEPT !.vec[v] = w.vec[o]]

\* Vector::Swap with RawMemory::Swap.
Swap(w, v, o) == [w EXCEPT !.vec[v] = w.vec[o], !.vec[o] = w.vec[v]]

\* An in-place assignment that destroys the shrinking tail before it copies.
OpAssignDestroysTailFirst(w, v, o) ==
    LET d == w.vec[v]
        r == w.vec[o]
        w1 == IF r.size < d.size
              THEN DestroyN(w, d.buf, r.size, d.size - r.size) ELSE w
        w2 == CopyLoop(w1, r.buf, d.buf, 0, Min(r.size, d.size))
        w3 == IF r.size > d.size
              THEN UninitializedCopyN(w2, r.buf, d.size, r.size - d.size, d.buf, d.size)
              ELSE w2
    IN IF w2.thrown THEN w2 ELSE w3

OpAssignRhsSizeLessCap(w, v, o) ==
    LET d == w.vec[v]
        r == w.vec[o]
        w1 == CopyLoop(w, r.buf, d.buf, 0, Min(r.size, d.size))
        w2 == IF r.size < d.size
              THEN DestroyN(w1, d.buf, r.size, d.size - r.size) ELSE w1
        w3 == IF r.size > d.size
              THEN UninitializedCopyN(w2, r.buf, d.size, r.size - d.size, d.buf, d.size)
              ELSE w2
    IN IF w1.thrown THEN w1 ELSE w3

\* A copy assignment that always copies and swaps.
CopyAssignAlwaysSwaps(w, v, o) ==
    IF v = o THEN w
    ELSE LET w1 == VectorCopy(w, Tmp, o)
         IN IF w1.thrown THEN w1
            ELSE [VectorDtor(Swap(w1, v, Tmp), Tmp) EXCEPT !.vec[v].size = w.vec[o].size]

\* operator=(const Vector& rhs).
CopyAssign(w, v, o) ==
    IF v = o THEN w
    ELSE IF w.vec[o].size > w.vec[v].cap
    THEN LET w1 == VectorCopy(w, Tmp, o)
         IN IF w1.thrown THEN w1
            ELSE [VectorDtor(Swap(w1, v, Tmp), Tmp) EXCEPT !.vec[v].size = w.vec[o].size]
    ELSE LET w1 == OpAssignRhsSizeLessCap(w, v, o)
         IN IF w1.thrown THEN w1
            ELSE [w1 EXCEPT !.vec[v].size = w.vec[o].size]

\* operator=(Vector&& rhs).
MoveAssignVector(w, v, o) == IF v # o THEN Swap(w, v, o) ELSE w

----------------------------------------------------------------------------
\* The state machine.

NoHist == [pure |-> FALSE, pushed |-> <<>>]

\* What the last operation was: its name, its target, how it ended ("ok";
\* "thrown": a failure was propagated; "ub": it returned after undefined
\* behaviour; "crash": the process faulted in it), the path it took, and
\* what it abandoned: lost, the live elements in blocks it released; stray,
\* the elements it left behind outside any array; unfreed, the allocations
\* it never released; twice, the releases of a block already released.  For
\* PushBackU and Emplace that did not throw, the index p of the new element,
\* the value x the argument had at the call, and whether the argument was a
\* reference to an element of the array itself (ref).  For
\* Reserve and Resize that did not throw, the capacity or size p asked for.  For
\* Emplace and Erase that did not throw, also the
\* call: its position p, the value x given, the position returned, and the
\* elements the array held before the call.  For the constructors
\* Vector(size_t) and Vector(const Vector&), the count p and the step that
\* was chosen to fail.
NoCall == [p |-> 0, x |-> 0, ref |-> FALSE, before |-> <<>>, step |-> 0]

NoOp ==
    [op |-> "none", v |-> Tmp, out |-> "ok", path |-> "", p |-> 0, x |-> 0, ref |-> FALSE,
     res |-> 0, before |-> <<>>, step |-> 0, lost |-> 0, stray |-> 0, unfreed |-> 0,
     twice |-> 0]

Init ==
    /\ heap = [b \in BufIds |-> <<>>]
    /\ vec = [v \in VecIds \cup {Tmp} |-> NoVector]
    /\ T \in Types
    /\ last = NoOp
    /\ hist = [v \in VecIds |-> NoHist]

Outcome(w) ==
    IF w.fault THEN "crash"
    ELSE IF w.thrown THEN "thrown"
    ELSE IF w.ub THEN "ub" ELSE "ok"

\* Addresses carry no meaning beyond identity: the state is kept up to a
\* renaming of the blocks, A's buffer first, then B's, then the others in
\* order.  What an operation that threw leaves behind is kept as it is.
Renamed(w) ==
    LET a == w.vec[A].buf
        b == w.vec[B].buf
    IN IF a \in {NullBuf, 1} /\ b \in {NullBuf, a, a + 1} THEN w
       ELSE LET owned == IF a # NullBuf /\ b # NullBuf /\ b # a THEN <<a, b>>
                         ELSE IF a # NullBuf THEN <<a>> ELSE <<b>>
                Free(x) == \A k \in DOMAIN owned : owned[k] # x
                order == owned \o SelectSeq([k \in BufIds |-> k], Free)
                name == [x \in BufIds |-> CHOOSE n \in BufIds : order[n] = x]
            IN [w EXCEPT !.heap = [n \in BufIds |-> w.heap[order[n]]],
                         !.vec = [u \in DOMAIN w.vec |->
                                    [w.vec[u] EXCEPT !.buf = IF @ = NullBuf THEN @ ELSE name[@]]]]

\* The operation's effects become the program's state.  (w.fuel = 0: no
\* failure was chosen, or the chosen step was reached and threw; a choice
\* beyond the operation's last step is no choice.)
Commit(w, op, v, path, call) ==
    /\ w.fuel = 0
    /\ LET r == IF w.thrown THEN w ELSE Renamed(w)
       IN heap' = r.heap /\ vec' = r.vec
    /\ T' = T
    /\ LET c == IF w.thrown /\ call.step = 0 THEN NoCall ELSE call
       IN last' = [op |-> op, v |-> v, out |-> Outcome(w), path |-> path,
                   p |-> c.p, x |-> c.x, ref |-> c.ref,
                   res |-> IF w.thrown \/ op \notin {"Emplace", "Erase"} THEN 0 ELSE w.ret,
                   before |-> c.before, step |-> IF w.thrown THEN c.step ELSE 0,
                   lost |-> w.lost, stray |-> w.stray, unfreed |-> w.unfreed,
                   twice |-> w.twice]

\* hist[v]: the values appended to v since its default construction, while
\* nothing but successful appends has been applied to it.
Forget(S) == hist' = [u \in VecIds |-> IF u \in S THEN NoHist ELSE hist[u]]

\* Nothing is specified of a program once it has run into undefined
\* behaviour: the model follows it no further.
Running == last.out \notin {"ub", "crash"}

Usable(v) == Running /\ vec[v].alive

\* The choices of the failing step for an operation on k elements: none (0),
\* or, with failures injected (fl), one of at most k + 3 steps (an
\* allocation, a construction, the relocation or assignment of each element).
Fuel(fl, k) == IF fl THEN 0..(k + 3) ELSE {0}

\* The element sequence of v: what its slots [0, size) hold.
ElemsIn(w, v) == [i \in 1..w.vec[v].size |-> Slot(w, w.vec[v].buf, i - 1)]

Elems(v) == ElemsIn(World(0), v)

DefaultCtor(v) ==
    /\ Running /\ ~vec[v].alive
    /\ Commit([World(0) EXCEPT !.vec[v] = EmptyVector], "Vector", v, "", NoCall)
    /\ hist' = [hist EXCEPT ![v] = [pure |-> TRUE, pushed |-> <<>>]]

SizedCtor(v, c, fl) ==
    /\ Running /\ ~vec[v].alive
    /\ \E n \in 0..c : \E f \in Fuel(fl, n) :
          Commit(VectorSized(World(f), v, n), "Sized", v, "",
                 [NoCall EXCEPT !.p = n, !.step = f])
    /\ Forget({v})

CopyCtor(v, o, fl) ==
    /\ Running /\ ~vec[v].alive /\ vec[o].alive /\ T.copyable
    /\ \E f \in Fuel(fl, vec[o].size) :
          Commit(VectorCopy(World(f), v, o), "Copy", v, "",
                 [NoCall EXCEPT !.p = vec[o].size, !.step = f])
    /\ Forget({v})

MoveCtor(v, o) ==
    /\ Running /\ ~vec[v].alive /\ vec[o].alive
    /\ Commit(VectorMove(World(0), v, o), "Move", v, "", NoCall)
    /\ Forget({v, o})

Dtor(v) ==
    /\ Usable(v)
    /\ Commit(VectorDtor(World(0), v), "Destroy", v, "", NoCall)
    /\ Forget({v})

AssignPath(v, o) ==
    IF v = o THEN "self" ELSE IF vec[o].size > vec[v].cap THEN "realloc" ELSE "inplace"

CopyAssignOp(v, o, fl) ==
    /\ Usable(v) /\ vec[o].alive /\ T.copyable
    /\ \E f \in Fuel(fl, vec[o].size) :
          Commit(CopyAssign(World(f), v, o), "CopyAssign", v, AssignPath(v, o), NoCall)
    /\ Forget({v})

\* The arrays a caller may pass as rhs: up to c elements of any values.
RECURSIVE SeqsUpTo(_, _)
SeqsUpTo(S, n) ==
    IF n = 0 THEN {<<>>}
    ELSE LET R == SeqsUpTo(S, n - 1)
         IN R \cup {Append(r, x) : r \in {q \in R : Len(q) = n - 1}, x \in S}

\* The working state with the caller's array rhs = s standing in o.
WithSource(w, o, s) ==
    IF s = <<>> THEN [w EXCEPT !.vec[o] = EmptyVector]
    ELSE LET b == CHOOSE x \in FreeBufs(w) : \A y \in FreeBufs(w) : x <= y
         IN [w EXCEPT !.heap[b] = s,
                      !.vec[o] = [alive |-> TRUE, buf |-> b, cap |-> Len(s), size |-> Len(s)]]

\* The caller's array leaves the picture.
WithoutSource(w, o) ==
    [w EXCEPT !.heap = [b \in BufIds |-> IF b = w.vec[o].buf THEN <<>> ELSE w.heap[b]],
              !.vec[o] = NoVector]

\* v = rhs for an array rhs of the caller's that the model does not follow:
\* it exists for the call only.
CopyAssignFrom(v, o, c, fl) ==
    /\ Usable(v) /\ ~vec[o].alive /\ T.copyable
    /\ \E s \in SeqsUpTo(UserVals \cup {DefaultVal}, c) : \E f \in Fuel(fl, Len(s)) :
          LET w0 == WithSource(World(f), o, s)
          IN Commit(WithoutSource(CopyAssign(w0, v, o), o), "CopyAssign", v,
                    IF Len(s) > vec[v].cap THEN "realloc" ELSE "inplace", NoCall)
    /\ Forget({v})

MoveAssignOp(v, o) ==
    /\ Usable(v) /\ vec[o].alive
    /\ Commit(MoveAssignVector(World(0), v, o), "MoveAssign", v,
              IF v = o THEN "self" ELSE "swap", NoCall)
    /\ Forget({v, o})

SwapOp(v, o) ==
    /\ Usable(v) /\ vec[o].alive
    /\ Commit(Swap(World(0), v, o), "Swap", v, "", NoCall)
    /\ Forget({v, o})

ReservePath(v, n) == IF n > vec[v].cap THEN "realloc" ELSE "noop"

ReserveOp(v, c, fl) ==
    /\ Usable(v)
    /\ \E n \in 0..c : \E f \in Fuel(fl, vec[v].size) :
          Commit(Reserve(World(f), v, n), "Reserve", v, ReservePath(v, n),
                 [NoCall EXCEPT !.p = n])
    /\ Forget({v})

ResizePath(v, n) ==
    IF n = vec[v].size THEN "noop"
    ELSE IF n < vec[v].size THEN "shrink"
    ELSE IF n > vec[v].cap THEN "realloc" ELSE "inplace"

ResizeOp(v, c, fl) ==
    /\ Usable(v)
    /\ \E n \in 0..c : \E f \in Fuel(fl, n) :
          Commit(Resize(World(f), v, n), "Resize", v, ResizePath(v, n),
                 [NoCall EXCEPT !.p = n])
    /\ Forget({v})

\* The arguments an insertion is called with: a value of the caller's, or
\* (by const reference) an element of the array itself.
Args(v, kind) ==
    {[ref |-> FALSE, x |-> x] : x \in UserVals}
      \cup (IF kind = "copy"
            THEN {[ref |-> TRUE, x |-> i] : i \in 0..(vec[v].size - 1)} ELSE {})

Given(v, arg) == IF arg.ref THEN Elems(v)[arg.x + 1] ELSE arg.x

PushPath(v) == IF vec[v].size # vec[v].cap THEN "inplace" ELSE "realloc"

Push(v, c, fl, kind) ==
    /\ Usable(v)
    /\ vec[v].size = vec[v].cap => GrowCap(vec[v].size) <= c
    /\ \E arg \in Args(v, kind), f \in Fuel(fl, vec[v].size) :
          LET w == PushBackU(World(f), v, kind, arg)
          IN /\ Commit(w, "PushBackU", v, PushPath(v),
                       [NoCall EXCEPT !.p = vec[v].size, !.x = Given(v, arg), !.ref = arg.ref])
             /\ hist' = [hist EXCEPT ![v] =
                           IF hist[v].pure /\ Outcome(w) = "ok"
                           THEN [pure |-> TRUE, pushed |-> Append(@.pushed, Given(v, arg))]
                           ELSE NoHist]

PushBackCopy(v, c, fl) == T.copyable /\ Push(v, c, fl, "copy")

PushBackMove(v, c, fl) == Push(v, c, fl, "move")

EmplaceBack(v, c, fl) == Push(v, c, fl, "args")

PopBackOp(v) ==
    /\ Usable(v) /\ vec[v].size > 0
    /\ Commit(PopBack(World(0), v), "PopBack", v, "", NoCall)
    /\ Forget({v})

EmplacePath(v) == IF InPlacePath(vec[v]) THEN "inplace" ELSE "realloc"

\* What the undefined std::move_backward of Emplace may do, where it is
\* undefined.
UbChoices(v, p) ==
    IF InPlacePath(vec[v]) /\ p = vec[v].size THEN {"skip", "trash"} ELSE {"skip"}

Place(v, c, fl, kind) ==
    /\ Usable(v)
    /\ ~InPlacePath(vec[v]) => GrowCap(vec[v].size) <= c
    /\ \E p \in 0..vec[v].size, arg \in Args(v, kind), f \in Fuel(fl, vec[v].size) :
       \E ub \in UbChoices(v, p) :
          Commit(Emplace(World(f), v, p, kind, arg, ub), "Emplace", v, EmplacePath(v),
                 [p |-> p, x |-> Given(v, arg), ref |-> arg.ref, before |-> Elems(v),
                  step |-> 0])
    /\ Forget({v})

EmplaceOp(v, c, fl) == Place(v, c, fl, "args")

InsertCopy(v, c, fl) == T.copyable /\ Place(v, c, fl, "copy")

InsertMove(v, c, fl) == Place(v, c, fl, "move")

EraseOp(v, fl) ==
    /\ Usable(v)
    /\ \E p \in 0..(vec[v].size - 1), f \in Fuel(fl, vec[v].size) :
          Commit(Erase(World(f), v, p), "Erase", v, "", [NoCall EXCEPT !.p = p])
    /\ Forget({v})

WriteOp(v, fl) ==
    /\ Usable(v)
    /\ \E i \in 0..(vec[v].size - 1), x \in UserVals, f \in Fuel(fl, 0) :
          Commit(WriteElem(World(f), v, i, x), "Write", v, "", NoCall)
    /\ Forget({v})

\* The operations of Vector on one array v, capacities up to c.
Members(v, c, fl) ==
    \/ DefaultCtor(v)
    \/ SizedCtor(v, c, fl)
    \/ Dtor(v)
    \/ ReserveOp(v, c, fl)
    \/ ResizeOp(v, c, fl)
    \/ PushBackCopy(v, c, fl)
    \/ PushBackMove(v, c, fl)
    \/ EmplaceBack(v, c, fl)
    \/ PopBackOp(v)
    \/ EmplaceOp(v, c, fl)
    \/ InsertCopy(v, c, fl)
    \/ InsertMove(v, c, fl)
    \/ EraseOp(v, fl)

\* The operations on one array v, element writes included.
Single(v, c, fl) == Members(v, c, fl) \/ WriteOp(v, fl)

\* The operations that involve two arrays.
Pair(v, o, fl) ==
    \/ CopyCtor(v, o, fl)
    \/ MoveCtor(v, o)
    \/ CopyAssignOp(v, o, fl)
    \/ MoveAssignOp(v, o)
    \/ SwapOp(v, o)

\* An array named on both sides of an operation.
Self(v) ==
    \/ CopyAssignOp(v, v, FALSE)
    \/ MoveAssignOp(v, v)
    \/ SwapOp(v, v)

\* One array, A; every operation runs to completion.
Next == Single(A, MaxCap, FALSE) \/ Self(A)

Spec == Init /\ [][Next]_vars

\* Two arrays, A and B; every operation runs to completion.
NextPair ==
    \/ \E v \in VecIds : Single(v, PairCap, FALSE)
    \/ \E v \in VecIds : Self(v)
    \/ \E v \in VecIds : \E o \in VecIds \ {v} : Pair(v, o, FALSE)

SpecPair == Init /\ [][NextPair]_vars

\* One array, A; any one step of an operation may fail.
NextFail ==
    \/ Members(A, FailCap, TRUE)
    \/ CopyAssignFrom(A, B, SourceCap, TRUE)

SpecFail == Init /\ [][NextFail]_vars

\* Construction and destruction only, of A and of a copy B of A; any one
\* step may fail.
NextCtor ==
    \/ DefaultCtor(A)
    \/ SizedCtor(A, CtorCap, TRUE)
    \/ CopyCtor(B, A, TRUE)
    \/ Dtor(A)
    \/ Dtor(B)

SpecCtor == Init /\ [][NextCtor]_vars

----------------------------------------------------------------------------
\* Properties.

Other(v) == IF v = A THEN B ELSE A

\* The block of v's buffer.
Block(v) == IF vec[v].buf = NullBuf THEN <<>> ELSE heap[vec[v].buf]

\* What a caller can observe of v: whether it exists, Size(), Capacity(), and
\* its elements.
View(v) ==
    [alive |-> vec[v].alive, size |-> vec[v].size, cap |-> vec[v].cap, elems |-> Elems(v)]

\* old[0..p) ++ [x] ++ old[p..Len(old))
InsertAt(s, p, x) ==
    [i \in 1..(Len(s) + 1) |-> IF i <= p THEN s[i] ELSE IF i = p + 1 THEN x ELSE s[i - 1]]

\* old[0..p) ++ old[p+1..Len(old))
RemoveAt(s, p) == [i \in 1..(Len(s) - 1) |-> IF i <= p THEN s[i] ELSE s[i + 1]]

RECURSIVE PowerOfTwoFrom(_, _)
PowerOfTwoFrom(c, k) == IF c >= k THEN c ELSE PowerOfTwoFrom(2 * c, k)

\* The smallest of 1, 2, 4, 8, ... that is >= k.
SmallestPowerOfTwo(k) == PowerOfTwoFrom(1, k)

VectorInv(v) ==
    /\ 0 <= vec[v].size /\ vec[v].size <= vec[v].cap
    /\ Len(Block(v)) = vec[v].cap
    /\ \A i \in 1..vec[v].cap : (Block(v)[i] # Raw) <=> (i <= vec[v].size)

\* C1: in every state reached by operations that completed, each array has
\* 0 <= Size() <= Capacity(), a buffer of Capacity() slots, a live element in
\* every slot below Size() and no object in the slots [Size(), Capacity()).
C1_SizeCapacityLiveSlots == last.out # "crash" => \A v \in VecIds : VectorInv(v)

\* An array with live elements, a raw tail, and an element just taken off.
C1_Witness ==
    /\ last.op = "PopBack" /\ last.v = A
    /\ vec[A].size = 1 /\ vec[A].cap = 2
    /\ vec[B].alive /\ vec[B].size = 2

\* C2: Emplace/Insert at any p in [0, Size()], on either path, yields
\* old[0..p) ++ [x] ++ old[p..Size()), Size() + 1, and returns index p.
C2_EmplaceInsertsAtPosition ==
    [][\A v \in VecIds :
         last'.op = "Emplace" /\ last'.v = v /\ last'.out # "thrown"
           => /\ last'.out = "ok"
              /\ Elems(v)' = InsertAt(Elems(v), last'.p, last'.x)
              /\ vec'[v].size = vec[v].size + 1
              /\ last'.res = last'.p]_vars

\* C3: Insert at any p in [0, Size()] followed by Erase at the position
\* Insert returned restores the element sequence and Size().
C3_InsertThenEraseRestores ==
    [][\A v \in VecIds :
         last'.op = "Emplace" /\ last'.v = v /\ last'.out # "thrown"
           => /\ last'.out = "ok"
              /\ LET w == Erase(World(0)', v, last'.res)
                 IN /\ ElemsIn(w, v) = Elems(v)
                    /\ w.vec[v].size = vec[v].size]_vars

\* C4: Erase at p in [0, Size()) keeps the elements below p, moves each
\* element above p one index down, decrements Size(), keeps Capacity(), and
\* returns index p.
C4_EraseShiftsTail ==
    [][\A v \in VecIds :
         last'.op = "Erase" /\ last'.v = v
           => /\ last'.out = "ok"
              /\ Elems(v)' = RemoveAt(Elems(v), last'.p)
              /\ vec'[v].size = vec[v].size - 1
              /\ vec'[v].cap = vec[v].cap
              /\ last'.res = last'.p]_vars

\* [1,2,0,1] with the element of index 1 erased: two elements moved down.
C4_Witness ==
    /\ last.op = "Erase" /\ last.out = "ok" /\ last.p = 1
    /\ Elems(A) = <<1, 0, 1>>

\* C5: k >= 1 appends to a default-constructed array give Size() = k, the
\* appended values in order, and Capacity() the smallest power of two >= k;
\* no append lowers Capacity().
C5_AppendGrowsByDoubling ==
    [][\A v \in VecIds :
         hist'[v].pure /\ Len(hist'[v].pushed) >= 1
           => /\ vec'[v].size = Len(hist'[v].pushed)
              /\ Elems(v)' = hist'[v].pushed
              /\ vec'[v].cap = SmallestPowerOfTwo(Len(hist'[v].pushed))
              /\ vec'[v].cap >= vec[v].cap]_vars

\* Three appends: capacity 1, 2, 4.
C5_Witness ==
    /\ hist[A].pure /\ hist[A].pushed = <<1, 2, 1>>
    /\ vec[A].cap = 4

\* Reserve, copy assignment and Emplace/Insert on their reallocating paths.
Reallocating ==
    /\ last.op \in {"Reserve", "CopyAssign", "Emplace"}
    /\ last.path = "realloc"

\* C6: for a type relocated by copy, or whose move cannot throw, a failure in
\* Reserve or in the reallocating path of copy assignment or Emplace/Insert
\* leaves Size(), Capacity(), the buffer and every element as they were.
C6_ReallocationStrongGuarantee ==
    [][\A v \in VecIds :
         /\ Reallocating' /\ last'.v = v /\ last'.out = "thrown"
         /\ T.copyable \/ T.nothrowMove
         => vec'[v] = vec[v] /\ Block(v)' = Block(v)]_vars

\* An Emplace into a full array of a copy-relocated type whose copy of an
\* existing element threw after the new element had been built.
C6_Witness ==
    /\ Reallocating /\ last.op = "Emplace" /\ last.out = "thrown"
    /\ T.copyable /\ ~T.nothrowMove
    /\ last.lost = 1
    /\ vec[A].size = 1 /\ vec[A].cap = 1

\* C7: no buffer is released while one of its slots holds a live element,
\* also when an operation aborts on a failing construction or copy.
C7_NoLiveElementReleased == last.lost = 0

\* C8: when the k-th construction fails in Vector(size_t) or in the copy
\* constructor, the elements built are destroyed, the allocation released,
\* no array results and the failure propagates.
C8_ConstructorRollback ==
    [][\A v \in VecIds :
         last'.op \in {"Sized", "Copy"} /\ last'.v = v /\ last'.out = "thrown"
           => /\ heap' = heap /\ vec' = vec
              /\ ~vec'[v].alive
              /\ last'.lost = 0 /\ last'.stray = 0]_vars

\* Vector(5) whose fourth element's constructor threw (step 1 is the
\* allocation).
C8_Witness ==
    /\ last.op = "Sized" /\ last.out = "thrown"
    /\ last.p = 5 /\ last.step = 5

\* C9: Vector(n) has Size() = Capacity() = n and n default-valued elements;
\* Vector(0) has no buffer.
C9_SizedYieldsDefaults ==
    \A v \in VecIds :
       last.op = "Sized" /\ last.v = v /\ last.out = "ok"
         => /\ vec[v].alive
            /\ vec[v].size = last.p /\ vec[v].cap = last.p
            /\ Elems(v) = [i \in 1..last.p |-> DefaultVal]
            /\ last.p = 0 => vec[v].buf = NullBuf

C9_Witness ==
    /\ last.op = "Sized" /\ last.out = "ok" /\ last.p = 3
    /\ Elems(A) = <<DefaultVal, DefaultVal, DefaultVal>>

\* The operations that mutate the array they are applied to and no other.
Mutators ==
    {"PushBackU", "PopBack", "Emplace", "Erase", "Resize", "Reserve", "Write",
     "CopyAssign", "Destroy"}

\* C10: a copy-constructed array has its source's elements and Size() =
\* Capacity() = the source's Size(); mutating an array changes nothing of
\* the one it was copied from.
C10_CopyIsEqualAndIndependent ==
    [][\A v \in VecIds :
         /\ last'.op = "Copy" /\ last'.v = v /\ last'.out = "ok"
              => /\ Elems(v)' = Elems(Other(v))
                 /\ vec'[v].size = vec[Other(v)].size
                 /\ vec'[v].cap = vec[Other(v)].size
         /\ last'.op \in Mutators \cup {"Copy"} /\ last'.v = v
              => View(Other(v))' = View(Other(v))]_vars

\* B, a copy of [1,2], after one of its elements was overwritten.
C10_Witness ==
    /\ last.op = "Write" /\ last.v = B
    /\ vec[B].cap = 2 /\ Elems(B) = <<2, 2>>
    /\ vec[A].cap = 2 /\ Elems(A) = <<1, 2>>

\* C11: after Vector B(std::move(A)), B has the Size(), Capacity() and
\* elements A had, and A is empty: Size() = 0, Capacity() = 0, no buffer.
C11_MoveConstructionTransfers ==
    [][\A v \in VecIds :
         last'.op = "Move" /\ last'.v = v
           => /\ last'.out = "ok"
              /\ View(v)' = View(Other(v))
              /\ vec'[Other(v)] = EmptyVector
              /\ VectorInv(Other(v))']_vars

\* B moved from [1,2] with capacity 2.
C11_Witness ==
    /\ last.op = "Move" /\ last.v = B
    /\ Elems(B) = <<1, 2>> /\ vec[B].cap = 2
    /\ vec[A] = EmptyVector

\* C12: after B = std::move(A) with A and B distinct, B has the Size(),
\* Capacity() and elements A had, and A is empty: Size() = 0, Capacity() = 0.
C12_MoveAssignmentEmptiesSource ==
    [][\A v \in VecIds :
         last'.op = "MoveAssign" /\ last'.v = v /\ last'.path = "swap"
           => /\ View(v)' = View(Other(v))
              /\ vec'[Other(v)].size = 0
              /\ vec'[Other(v)].cap = 0]_vars

\* C13: after a copy assignment A = B that returned, A has B's elements and
\* Size(), and B is unchanged; Capacity() is B's Size() when that exceeded
\* A's capacity, and unchanged otherwise; A = A changes nothing.
C13_CopyAssignment ==
    [][\A v \in VecIds :
         last'.op = "CopyAssign" /\ last'.v = v /\ last'.out = "ok"
           => IF last'.path = "self"
              THEN vec'[v] = vec[v] /\ Block(v)' = Block(v)
              ELSE /\ Elems(v)' = Elems(Other(v))
                   /\ vec'[v].size = vec[Other(v)].size
                   /\ View(Other(v))' = View(Other(v))
                   /\ vec'[v].cap = IF vec[Other(v)].size > vec[v].cap
                                    THEN vec[Other(v)].size ELSE vec[v].cap]_vars

\* A, of capacity 2, assigned the one-element B in place.
C13_Witness ==
    /\ last.op = "CopyAssign" /\ last.v = A /\ last.path = "inplace"
    /\ vec[A].cap = 2 /\ Elems(A) = <<2>>
    /\ vec[B].cap = 1 /\ Elems(B) = <<2>>

\* C14: in every state each allocated block is the buffer of exactly one
\* array (never of two, never of none), no array's buffer is a released
\* block, and no operation releases a block twice.
C14_BufferOwnedOnceReleasedOnce ==
    /\ \A v \in VecIds : vec[v].buf # NullBuf =>
          /\ heap[vec[v].buf] # <<>>
          /\ vec[Other(v)].buf # vec[v].buf
    /\ \A b \in BufIds : heap[b] # <<>> => \E v \in VecIds : vec[v].buf = b
    /\ ~vec[Tmp].alive /\ vec[Tmp].buf = NullBuf
    /\ last.twice = 0

\* B destroyed after the two arrays exchanged their buffers: A still reads
\* its elements.
C14_Witness ==
    /\ last.op = "Destroy" /\ last.v = B
    /\ ~vec[B].alive /\ vec[B].buf = NullBuf
    /\ vec[A].buf # NullBuf /\ Elems(A) = <<1, 2>>
    /\ heap[2] = <<>> /\ heap[3] = <<>>

\* C15: Reserve(n) with n <= Capacity() changes nothing; with n >
\* Capacity() it makes Capacity() exactly n and keeps Size() and the
\* elements.
C15_ReserveExactOrNothing ==
    [][\A v \in VecIds :
         last'.op = "Reserve" /\ last'.v = v /\ last'.out # "thrown"
           => /\ last'.out = "ok"
              /\ IF last'.p <= vec[v].cap
                 THEN vec'[v] = vec[v] /\ Block(v)' = Block(v)
                 ELSE /\ vec'[v].cap = last'.p
                      /\ vec'[v].size = vec[v].size
                      /\ Elems(v)' = Elems(v)]_vars

\* [1,2] of capacity 2 after Reserve(3).
C15_Witness ==
    /\ last.op = "Reserve" /\ last.path = "realloc" /\ last.p = 3
    /\ vec[A].cap = 3 /\ Elems(A) = <<1, 2>>

\* C16: after Resize(n), Size() = n and the first min(old Size(), n)
\* elements are unchanged; shrinking keeps Capacity() and destroys the
\* tail; growing gives default-valued elements in [old Size(), n) and
\* Capacity() = max(old Capacity(), n); Resize(Size()) changes nothing.
C16_ResizeEffect ==
    [][\A v \in VecIds :
         last'.op = "Resize" /\ last'.v = v /\ last'.out # "thrown"
           => LET n == last'.p
                  old == vec[v].size
              IN /\ last'.out = "ok"
                 /\ vec'[v].size = n
                 /\ \A i \in 1..Min(old, n) : Elems(v)'[i] = Elems(v)[i]
                 /\ n < old => /\ vec'[v].cap = vec[v].cap
                               /\ \A i \in (n + 1)..old : Block(v)'[i] = Raw
                 /\ n > old => /\ \A i \in (old + 1)..n : Elems(v)'[i] = DefaultVal
                               /\ vec'[v].cap = IF n > vec[v].cap THEN n ELSE vec[v].cap
                 /\ n = old => vec'[v] = vec[v] /\ Block(v)' = Block(v)]_vars

\* [1,2] of capacity 2 after Resize(4).
C16_Witness ==
    /\ last.op = "Resize" /\ last.p = 4
    /\ vec[A].cap = 4 /\ Elems(A) = <<1, 2, DefaultVal, DefaultVal>>

\* C17: when copy assignment on its in-place path, to an array that
\* satisfies the invariant, aborts on a failing element assignment or
\* construction, Capacity() is unchanged and the target still has Size() <= Capacity(), live elements exactly in
\* [0, Size()) and no object in [Size(), Capacity()).
C17_InPlaceAssignFailureKeepsInvariant ==
    [][\A v \in VecIds :
         /\ last'.op = "CopyAssign" /\ last'.v = v
         /\ last'.path = "inplace" /\ last'.out = "thrown"
         /\ VectorInv(v)
         => /\ vec'[v].cap = vec[v].cap
            /\ vec'[v].buf = vec[v].buf
            /\ VectorInv(v)']_vars

\* An assignment into an array of three elements that threw after it had
\* overwritten the first.
C17_Witness ==
    /\ last.op = "CopyAssign" /\ last.path = "inplace" /\ last.out = "thrown"
    /\ vec[A].cap = 3 /\ Elems(A) = <<1, DefaultVal, DefaultVal>>

\* C18: no call to Reserve, Resize, PushBack/EmplaceBack, PopBack,
\* Emplace/Insert or Erase reduces Capacity(), an empty array with
\* capacity above 1 included.
C18_CapacityNeverReduced ==
    [][\A v \in VecIds :
         /\ last'.op \in {"Reserve", "Resize", "PushBackU", "PopBack", "Emplace", "Erase"}
         /\ last'.v = v
         => vec'[v].cap >= vec[v].cap]_vars

\* C19: when PushBack/EmplaceBack, Resize, Emplace/Insert (either path) or
\* Erase, applied to an array that satisfies the invariant, aborts with a
\* propagated failure, the array still has Size() <= Capacity(), live
\* elements in [0, Size()) and no object in [Size(), Capacity()).
C19_FailureKeepsInvariant ==
    [][\A v \in VecIds :
         /\ last'.op \in {"PushBackU", "Resize", "Emplace", "Erase"}
         /\ last'.v = v /\ last'.out = "thrown"
         /\ VectorInv(v)
         => VectorInv(v)']_vars

\* C20: when PushBack(const T&) or Insert(pos, const T&) is given a
\* reference to an element of the array itself, the new element has the
\* value that element had before the call, on either path.
C20_AliasedArgumentKeepsValue ==
    [][\A v \in VecIds :
         /\ last'.op \in {"PushBackU", "Emplace"} /\ last'.v = v
         /\ last'.ref /\ last'.out # "thrown"
         => /\ last'.out = "ok"
            /\ vec'[v].size = vec[v].size + 1
            /\ Elems(v)'[last'.p + 1] = last'.x]_vars

====
